---- MODULE Spec2Model ----
(***************************************************************************)
(* Model of MHD::MHDCalcFlux (src/src/mhd/mhd_calc_fluxes.cpp): the three  *)
(* directional sweeps, each a par_for_outer dispatch of work units (teams) *)
(* whose threads reconstruct interface states into team scratch buffers,   *)
(* meet at team barriers, and call the Riemann solver that writes the flux *)
(* and EMF arrays.                                                         *)
(*                                                                         *)
(* Units of one dispatch share nothing but the flux/EMF arrays, and every  *)
(* access to those arrays is recorded per location with a write count, so  *)
(* units are run one after the other in league order; the threads of the   *)
(* running unit interleave freely.                                         *)
(***************************************************************************)
EXTENDS Integers, Naturals, Sequences, FiniteSets, TLC

\* ---- bounds of the model ----
NThreads == 2          \* threads in a team
NumBlocks == 2         \* MeshBlocks in the pack (nmb_thispack)
Nx1 == 2               \* active cells of a block in x1
Nx2 == 2               \* active cells in x2 of a mesh with extent in x2
Nx3 == 2               \* active cells in x3 of a mesh with extent in x3
NumMhd == 1            \* MHD variables of the MHD object (nmhd)
NumScalars == 1        \* passive scalars of the MHD object (nscalars)

GhostWidths == {2, 3}  \* ghost-zone widths (both parities of the start index)

Threads == 0 .. (NThreads - 1)

\* ---- selectors ----
ReconMethods == {"dc", "plm", "ppm", "none"}
RSolverMethods == {"advect", "llf", "hlld"}

VARIABLES
  recon_method,   \* recon_method_ of the MHD object
  rsolver_method, \* rsolver_method_ of the MHD object
  nx2gt1, nx3gt1, \* pmy_pack->pmesh->nx2gt1, nx3gt1
  cells,          \* pmy_pack->mb_cells
  nmb,            \* pmy_pack->nmb_thispack
  nmhd_obj,       \* MHD::nmhd (the member)
  nscalars,       \* MHD::nscalars
  pc,             \* position of the call: "entry","x1","x2","x3","returned"
  nmhd,           \* the local nmhd of line 38
  nvars,          \* the local nvars
  ncells1,        \* the local ncells1
  scr_size,       \* the local scr_size
  sized,          \* directions for which scr_size was computed -> its value
  launched,       \* sequence of the directions dispatched so far
  status,         \* value returned to the caller ("none" before the return)
  lrank,          \* league rank of the unit that runs (or is next to run)
  running,        \* TRUE while the team of unit lrank executes
  alloc,          \* shapes of the scratch views the running unit allocated
  allocated,      \* directions in which some unit allocated scratch views
  scratch,        \* team scratch: slot -> line index -> tag
  tpc,            \* per thread: position in the team lambda
  it,             \* per thread: loop index j (direction 2) or k (direction 3)
  nbar,           \* per thread: number of team_barrier calls made
  phases,         \* per thread: the switches it executed in the running unit,
                  \*   in order, as <<"recon" or "solve", loop index>>
  flux,           \* direction -> location -> [l, r, n]
  emf,            \* direction -> location -> [l, r, n]
  rccalls,        \* reconstruction calls of the running unit:
                  \*   <<d,m,k,j,t>> -> [il, iu, n]
  rscalls,        \* solver calls of the running unit, likewise
  written         \* names of the arrays the call has written so far

\* ---- state of the problem generators (src/src/pgen) ----
VARIABLES
  call,           \* the function called: "none", "OrszagTang_", "UserProblem",
                  \*   "ParticleHistory"
  ppc,            \* position in the called function
  pmhd,           \* pmbp->pmhd != nullptr
  ppart,          \* pmbp->ppart != nullptr
  restart,        \* argument restart of UserProblem
  is_ideal,       \* eos.is_ideal
  kidx,           \* next iteration (flat, row-major) of the running kernel
  accessed,       \* names of the data read or written by the call so far
  u0w,            \* <<m,k,j,i>> -> variables of u0 written there
  b0w,            \* <<c,m,k,j,i>> (face of component c) -> iterations that wrote it
  stale,          \* <<face, iteration>>: reads of a face nothing had written
  npart,          \* nprtcl_thispack
  nspecies,       \* Particles::nspecies
  npart_spec,     \* nprtcl_perspec_thispack
  gids,           \* first global block id of the pack
  pool,           \* rand_pool64: particle -> state of the generator it gets
  pi_gid, pi_sp,  \* prtcl_idata(PGID,p), prtcl_idata(PSP,p)
  pr_pos,         \* prtcl_rdata(IPX..IPZ,p), as <<x,y,z>>
  pr_disp,        \* prtcl_rdata(IPDX,IPDY,IPDZ,IPDB,p), as <<dx,dy,dz,db>>
  visits,         \* <<m,k,j,i>> -> times the restart reduction read the cell
  dtterms,        \* terms the minimum dtnew has been taken over
  hsum,           \* sum_this_mb.the_array, in units of 1/nprtcl_total
  hcount,         \* particle -> times the history reduction added it
  hdata           \* pdata->hdata

pgenvars == <<call, ppc, pmhd, ppart, restart, is_ideal, kidx, accessed, u0w, b0w,
              stale, npart, nspecies, npart_spec, gids, pool, pi_gid, pi_sp,
              pr_pos, pr_disp, visits, dtterms, hsum, hcount, hdata>>

cfgvars == <<recon_method, rsolver_method, nx2gt1, nx3gt1, cells, nmb,
             nmhd_obj, nscalars>>
locvars == <<nmhd, nvars, ncells1>>
dispvars == <<pc, scr_size, sized, launched, status, lrank>>
teamvars == <<running, alloc, allocated, scratch, tpc, it, nbar, phases>>
outvars == <<flux, emf>>
logvars == <<rccalls, rscalls, written>>
mhdvars == <<locvars, dispvars, teamvars, outvars, logvars>>
vars == <<cfgvars, locvars, dispvars, teamvars, outvars, logvars, pgenvars>>

\* ---- mesh indices ----
\* GridIndices of a block: active cells start after the ghost zones in a
\* direction the block has extent in, and at 0 otherwise.
GridIndices(ng, n1, n2, n3) ==
  [ is |-> ng, ie |-> ng + n1 - 1,
    js |-> IF n2 > 1 THEN ng ELSE 0, je |-> IF n2 > 1 THEN ng + n2 - 1 ELSE 0,
    ks |-> IF n3 > 1 THEN ng ELSE 0, ke |-> IF n3 > 1 THEN ng + n3 - 1 ELSE 0,
    ng |-> ng, nx1 |-> n1, nx2 |-> n2, nx3 |-> n3 ]

\* ---- tags of buffer contents ----
\* An element of an interface buffer is either indeterminate (never written
\* by this unit) or the state reconstructed from cell c of the swept axis.
Uninit == [c |-> -1, role |-> "uninit"]
QL(c) == [c |-> c, role |-> "ql"]   \* left state of face c+1
QR(c) == [c |-> c, role |-> "qr"]   \* right state of face c

Slots == 1 .. 6
EmptyMap == [x \in {} |-> 0]
FreshScratch == [s \in Slots |-> [i \in 0 .. (ncells1 - 1) |-> Uninit]]

\* ---- helpers of the call ----
\* the case labels of the two switches
KnownRecon == {"dc", "plm", "ppm"}
KnownRSolvers == {"advect", "llf"}

ReconImplemented == recon_method \in KnownRecon

\* a solver switch whose default case solves as well
RSolverImplemented_Default == rsolver_method \in RSolverMethods

RSolverImplemented == rsolver_method \in KnownRSolvers

\* values the self-initialised local nmhd is drawn from: the value is
\* indeterminate; it may by chance be the member's, or anything else (0)
UninitInt == {0, nmhd_obj}

\* ScrArray2D<Real>::shmem_size(n, m), in units of one Real
ShmemSize(n, m) == n * m

\* a request that sizes two buffer sets in every direction
BufferSets_Two(d) == 2

\* number of buffer sets of a direction's scratch request
BufferSets(d) == IF d = 1 THEN 2 ELSE 3
ScrSize(d, nv, nc) == (ShmemSize(nv, nc) + ShmemSize(3, nc)) * BufferSets(d)

CurDir == CASE pc = "x1" -> 1 [] pc = "x2" -> 2 [] pc = "x3" -> 3 [] OTHER -> 0

\* extents of the league of a dispatch
NK == cells.ke - cells.ks + 1
NJ == cells.je - cells.js + 1
NumUnits(d) ==
  CASE d = 1 -> nmb * NK * NJ
    [] d = 2 -> nmb * NK
    [] d = 3 -> nmb * NJ
    [] OTHER -> 0

\* indices (m,k,j) of the unit with league rank u; the index the unit loops
\* over itself is given as -1
UnitOf(d, u) ==
  CASE d = 1 -> [m |-> u \div (NK * NJ),
                 k |-> cells.ks + ((u % (NK * NJ)) \div NJ),
                 j |-> cells.js + (u % NJ)]
    [] d = 2 -> [m |-> u \div NK, k |-> cells.ks + (u % NK), j |-> -1]
    [] OTHER -> [m |-> u \div NJ, k |-> -1, j |-> cells.js + (u % NJ)]

\* the sequential loop of a unit in directions 2 and 3
LoopStart(d) == IF d = 2 THEN cells.js - 1 ELSE IF d = 3 THEN cells.ks - 1 ELSE 0

\* a loop that stops at je (ke), one short
LoopEnd_Short(d) == IF d = 2 THEN cells.je ELSE IF d = 3 THEN cells.ke ELSE 0

LoopEnd(d) == IF d = 2 THEN cells.je + 1 ELSE IF d = 3 THEN cells.ke + 1 ELSE 0

\* solver and reconstruction called with the unit's indices only, the loop
\* index left out
ArgsOf_NoLoopIndex(d, u, idx) == UnitOf(d, u)

\* (m,k,j) that a thread of the running unit passes to reconstruction and
\* solver when its loop index is idx
ArgsOf(d, u, idx) ==
  CASE d = 1 -> UnitOf(d, u)
    [] d = 2 -> [UnitOf(d, u) EXCEPT !.j = idx]
    [] OTHER -> [UnitOf(d, u) EXCEPT !.k = idx]

\* a permutation that never swaps the two left buffers
Permuted_Never(idx) == idx < 0

\* "if ((j%2) == 0)" of the buffer permutation
Permuted(idx) == (idx % 2) = 0

\* the scratch slots behind the names wl, wl_jp1, wr, bl, bl_jp1, br
Views(d, idx) ==
  IF d = 1 THEN [wl |-> 1, wln |-> 1, wr |-> 2, bl |-> 3, bln |-> 3, br |-> 4]
  ELSE IF Permuted(idx)
       THEN [wl |-> 2, wln |-> 1, wr |-> 3, bl |-> 5, bln |-> 4, br |-> 6]
       ELSE [wl |-> 1, wln |-> 2, wr |-> 3, bl |-> 4, bln |-> 5, br |-> 6]

\* views a unit allocates from team scratch, as <<rows, columns>>
AllocViews(d) ==
  IF d = 1
  THEN << <<nvars, ncells1>>, <<nvars, ncells1>>, <<3, ncells1>>, <<3, ncells1>> >>
  ELSE << <<nvars, ncells1>>, <<nvars, ncells1>>, <<nvars, ncells1>>,
          <<3, ncells1>>, <<3, ncells1>>, <<3, ncells1>> >>

\* index ranges passed to reconstruction and to the solver
ReconRange(d) == [il |-> cells.is - 1, iu |-> cells.ie + 1]

\* a solver range that starts at is-1 in direction 1 too
SolveRange_Full(d) == [il |-> cells.is - 1, iu |-> cells.ie + 1]

SolveRange(d) ==
  IF d = 1 THEN [il |-> cells.is, iu |-> cells.ie + 1]
  ELSE [il |-> cells.is - 1, iu |-> cells.ie + 1]

\* a loop that solves in its first iteration too
Solves_Always(d, idx) == idx >= LoopStart(d)

\* "if (j>(js-1))": the iterations that solve
Solves(d, idx) == IF d = 1 THEN TRUE ELSE idx > LoopStart(d)

\* whether direction 3 (and only it) has the barrier after the solve
BarrierAfterSolve(d) == d = 3

\* every sweep handing flx1/emf1 to the solver
FluxTarget_One(d) == 1

\* the flux/EMF array the sweep of direction d hands to the solver
FluxTarget(d) == d

\* names of the arrays of the call: the inputs it captures (w0, bcc0 and the
\* face field b0), the flux and EMF arrays, and the scratch views of a unit
InputArrays == {<<"w0", 0>>, <<"bcc0", 0>>, <<"b0", 1>>, <<"b0", 2>>, <<"b0", 3>>}
FluxName(f) == <<"flux", f>>
EmfName(f) == <<"emf", f>>
ScratchName(s) == <<"scr", s>>

\* output arguments of the reconstruction calls at loop index idx: the
\* left(-next) and right views, fluid and field
ReconOutputs(d, idx) ==
  LET v == Views(d, idx)
  IN {ScratchName(v.wln), ScratchName(v.wr), ScratchName(v.bln), ScratchName(v.br)}

\* output arguments of the solver call of direction d
SolverOutputs(d) == {FluxName(FluxTarget(d)), EmfName(FluxTarget(d))}

\* par_for_inner: the indices of [il,iu] that thread t of the team handles
Share(t, il, iu) == {i \in il .. iu : (i - il) % NThreads = t}

\* the team scratch after thread t's reconstruction call pair (fluid and
\* field) at loop index idx: X1 writes ql(i+1) and qr(i), X2/X3 write
\* ql_jp1(i) and qr(i), for the i of the thread's share of [il,iu]
ReconWrites(d, idx, t) ==
  LET v == Views(d, idx)
      r == ReconRange(d)
      mine == Share(t, r.il, r.iu)
  IN [s \in Slots |->
       [i \in DOMAIN scratch[s] |->
         IF d = 1
         THEN IF s \in {v.wl, v.bl} /\ (i - 1) \in mine THEN QL(i - 1)
              ELSE IF s \in {v.wr, v.br} /\ i \in mine THEN QR(i)
              ELSE scratch[s][i]
         ELSE IF s \in {v.wln, v.bln} /\ i \in mine THEN QL(idx)
              ELSE IF s \in {v.wr, v.br} /\ i \in mine THEN QR(idx)
              ELSE scratch[s][i]]]

\* one more call under key x of a call log
Logged(log, x, r) ==
  (x :> [il |-> r.il, iu |-> r.iu,
         n |-> (IF x \in DOMAIN log THEN log[x].n ELSE 0) + 1]) @@ log

\* the solver's writes of thread t: one entry per face of its share, made
\* from the left and right states at that face
SolverWrites(arr, ls, rs, a, t, rg) ==
  [x \in {<<a.m, a.k, a.j, i>> : i \in Share(t, rg.il, rg.iu)} |->
     [l |-> scratch[ls][x[4]], r |-> scratch[rs][x[4]],
      n |-> (IF x \in DOMAIN arr THEN arr[x].n ELSE 0) + 1]] @@ arr

\* a barrier that expects one thread more than the team has
BarrierOpen_OneMore(S) == Cardinality(S) = NThreads + 1

\* a barrier that lets the threads that arrived through at once
BarrierOpen_NoWait(S) == S # {}

\* team_barrier: the threads S waiting at the barrier leave it together, once
\* every thread of the team has arrived
BarrierOpen(S) == S = Threads

\* an early return after direction 1 that tests the wrong flag
ReturnAfterX1_WrongFlag == ~nx3gt1

\* "if (!(pmy_pack->pmesh->nx2gt1)) return", "if (!(...->nx3gt1)) return"
ReturnAfterX1 == ~nx2gt1
ReturnAfterX2 == ~nx3gt1

\* no problem generator or history function has been called
PgenIdle ==
  /\ call = "none" /\ ppc = "idle"
  /\ pmhd = TRUE /\ ppart = FALSE /\ restart = FALSE /\ is_ideal = FALSE
  /\ kidx = 0
  /\ accessed = {}
  /\ u0w = EmptyMap /\ b0w = EmptyMap /\ stale = {}
  /\ npart = 0 /\ nspecies = 0 /\ npart_spec = 0 /\ gids = 0
  /\ pool = EmptyMap
  /\ pi_gid = EmptyMap /\ pi_sp = EmptyMap /\ pr_pos = EmptyMap /\ pr_disp = EmptyMap
  /\ visits = EmptyMap
  /\ dtterms = {}
  /\ hsum = EmptyMap /\ hcount = EmptyMap /\ hdata = EmptyMap

\* the mesh of the pack
MeshConfig ==
  /\ nx2gt1 \in BOOLEAN
  /\ nx3gt1 \in BOOLEAN
  /\ \E ng \in GhostWidths :
       cells = GridIndices(ng, Nx1, IF nx2gt1 THEN Nx2 ELSE 1,
                           IF nx3gt1 THEN Nx3 ELSE 1)
  /\ nmb = NumBlocks

\* the MHD object before a call of MHDCalcFlux
MhdStart ==
  /\ nmhd_obj = NumMhd
  /\ nscalars = NumScalars
  /\ pc = "entry"
  /\ nmhd = 0 /\ nvars = 0 /\ ncells1 = 0 /\ scr_size = 0
  /\ sized = EmptyMap
  /\ launched = << >>
  /\ status = "none"
  /\ lrank = 0
  /\ running = FALSE
  /\ alloc = << >>
  /\ allocated = {}
  /\ scratch = [s \in Slots |-> EmptyMap]
  /\ tpc = [t \in Threads |-> "idle"]
  /\ it = [t \in Threads |-> 0]
  /\ nbar = [t \in Threads |-> 0]
  /\ phases = [t \in Threads |-> << >>]
  /\ flux = [d \in 1 .. 3 |-> EmptyMap]
  /\ emf = [d \in 1 .. 3 |-> EmptyMap]
  /\ rccalls = EmptyMap
  /\ rscalls = EmptyMap
  /\ written = {}

Init ==
  /\ PgenIdle
  /\ recon_method \in ReconMethods
  /\ rsolver_method \in RSolverMethods
  /\ MeshConfig
  /\ MhdStart

\* ---- the call: lines 33-57 ----
\* The local nmhd is initialised from itself (line 38), so it holds an
\* indeterminate value.
Enter ==
  /\ pc = "entry"
  /\ ncells1' = cells.nx1 + 2 * cells.ng
  /\ nmhd' \in UninitInt
  /\ nvars' = nmhd' + nscalars
  /\ scr_size' = ScrSize(1, nvars', ncells1')
  /\ sized' = (1 :> scr_size')
  /\ launched' = <<1>>
  /\ lrank' = 0
  /\ pc' = "x1"
  /\ UNCHANGED <<pgenvars, cfgvars, status, teamvars, outvars, logvars>>

\* ---- a unit of the running dispatch starts: its scratch views ----
StartUnit ==
  /\ CurDir # 0
  /\ ~running
  /\ lrank < NumUnits(CurDir)
  /\ running' = TRUE
  /\ alloc' = AllocViews(CurDir)
  /\ allocated' = allocated \cup {CurDir}
  /\ scratch' = FreshScratch
  /\ tpc' = [t \in Threads |-> "recon"]
  /\ it' = [t \in Threads |-> LoopStart(CurDir)]
  /\ nbar' = [t \in Threads |-> 0]
  /\ phases' = [t \in Threads |-> << >>]
  /\ rccalls' = EmptyMap
  /\ rscalls' = EmptyMap
  /\ UNCHANGED <<pgenvars, cfgvars, locvars, dispvars, outvars, written>>

\* position of a thread after the body of loop index idx
AfterBody(d, idx) ==
  IF d = 1 \/ idx + 1 > LoopEnd(d) THEN "done" ELSE "recon"

\* ---- reconstruction switch, then arrival at the team barrier ----
Reconstruct(t) ==
  /\ running
  /\ tpc[t] = "recon"
  /\ LET d == CurDir
         a == ArgsOf(d, lrank, it[t])
     IN IF ReconImplemented
        THEN /\ scratch' = ReconWrites(d, it[t], t)
             /\ rccalls' = Logged(rccalls, <<d, a.m, a.k, a.j, t>>, ReconRange(d))
             /\ written' = written \cup ReconOutputs(d, it[t])
        ELSE UNCHANGED <<scratch, rccalls, written>>
  /\ tpc' = [tpc EXCEPT ![t] = "bar1"]
  /\ nbar' = [nbar EXCEPT ![t] = @ + 1]
  /\ phases' = [phases EXCEPT ![t] = Append(@, <<"recon", it[t]>>)]
  /\ UNCHANGED <<pgenvars, cfgvars, locvars, dispvars, running, alloc, allocated, it, outvars,
                 rscalls>>

\* ---- the team leaves the barrier that follows reconstruction ----
TeamBarrier1 ==
  /\ running
  /\ \E S \in SUBSET Threads :
       /\ S # {}
       /\ \A t \in S : tpc[t] = "bar1"
       /\ BarrierOpen(S)
       /\ LET d == CurDir
          IN /\ tpc' = [t \in Threads |->
                         IF t \notin S THEN tpc[t]
                         ELSE IF Solves(d, it[t]) THEN "solve"
                         ELSE AfterBody(d, it[t])]
             /\ it' = [t \in Threads |->
                        IF t \in S /\ ~Solves(d, it[t]) THEN it[t] + 1 ELSE it[t]]
  /\ UNCHANGED <<pgenvars, cfgvars, locvars, dispvars, running, alloc, allocated, scratch, nbar,
                 phases, outvars, logvars>>

\* ---- solver switch ----
Solve(t) ==
  /\ running
  /\ tpc[t] = "solve"
  /\ LET d == CurDir
         a == ArgsOf(d, lrank, it[t])
         v == Views(d, it[t])
         rg == SolveRange(d)
         f == FluxTarget(d)
     IN /\ IF RSolverImplemented
           THEN /\ flux' = [flux EXCEPT ![f] = SolverWrites(@, v.wl, v.wr, a, t, rg)]
                /\ emf' = [emf EXCEPT ![f] = SolverWrites(@, v.bl, v.br, a, t, rg)]
                /\ rscalls' = Logged(rscalls, <<d, a.m, a.k, a.j, t>>, rg)
                /\ written' = written \cup SolverOutputs(d)
           ELSE UNCHANGED <<flux, emf, rscalls, written>>
        /\ IF BarrierAfterSolve(d)
           THEN /\ tpc' = [tpc EXCEPT ![t] = "bar2"]
                /\ nbar' = [nbar EXCEPT ![t] = @ + 1]
                /\ it' = it
           ELSE /\ tpc' = [tpc EXCEPT ![t] = AfterBody(d, it[t])]
                /\ it' = [it EXCEPT ![t] = IF d = 1 THEN @ ELSE @ + 1]
                /\ nbar' = nbar
  /\ phases' = [phases EXCEPT ![t] = Append(@, <<"solve", it[t]>>)]
  /\ UNCHANGED <<pgenvars, cfgvars, locvars, dispvars, running, alloc, allocated, scratch,
                 rccalls>>

\* ---- the team leaves the barrier that follows the solve (direction 3) ----
TeamBarrier2 ==
  /\ running
  /\ \E S \in SUBSET Threads :
       /\ S # {}
       /\ \A t \in S : tpc[t] = "bar2"
       /\ BarrierOpen(S)
       /\ tpc' = [t \in Threads |->
                   IF t \in S THEN AfterBody(CurDir, it[t]) ELSE tpc[t]]
       /\ it' = [t \in Threads |-> IF t \in S THEN it[t] + 1 ELSE it[t]]
  /\ UNCHANGED <<pgenvars, cfgvars, locvars, dispvars, running, alloc, allocated, scratch, nbar,
                 phases, outvars, logvars>>

\* ---- every thread of the unit left the lambda ----
EndUnit ==
  /\ running
  /\ \A t \in Threads : tpc[t] = "done"
  /\ running' = FALSE
  /\ lrank' = lrank + 1
  /\ tpc' = [t \in Threads |-> "idle"]
  /\ alloc' = << >>
  /\ UNCHANGED <<pgenvars, cfgvars, locvars, pc, scr_size, sized, launched, status,
                 allocated, scratch, it, nbar, phases, outvars, logvars>>

DispatchDone(d) == CurDir = d /\ ~running /\ lrank = NumUnits(d)

Return ==
  /\ status' = "complete"
  /\ pc' = "returned"
  /\ UNCHANGED <<scr_size, sized, launched, lrank>>

Launch(d, p) ==
  /\ scr_size' = ScrSize(d, nvars, ncells1)
  /\ sized' = (d :> scr_size') @@ sized
  /\ launched' = Append(launched, d)
  /\ lrank' = 0
  /\ pc' = p
  /\ status' = status

\* ---- lines 107-118 ----
EndX1 ==
  /\ DispatchDone(1)
  /\ IF ReturnAfterX1 THEN Return ELSE Launch(2, "x2")
  /\ UNCHANGED <<pgenvars, cfgvars, locvars, teamvars, outvars, logvars>>

\* ---- lines 187-198 ----
EndX2 ==
  /\ DispatchDone(2)
  /\ IF ReturnAfterX2 THEN Return ELSE Launch(3, "x3")
  /\ UNCHANGED <<pgenvars, cfgvars, locvars, teamvars, outvars, logvars>>

\* ---- line 267 ----
EndX3 ==
  /\ DispatchDone(3)
  /\ Return
  /\ UNCHANGED <<pgenvars, cfgvars, locvars, teamvars, outvars, logvars>>

Next ==
  \/ Enter
  \/ StartUnit
  \/ \E t \in Threads : Reconstruct(t)
  \/ TeamBarrier1
  \/ \E t \in Threads : Solve(t)
  \/ TeamBarrier2
  \/ EndUnit
  \/ EndX1
  \/ EndX2
  \/ EndX3

Spec == Init /\ [][Next]_vars

TypeOK ==
  /\ pc \in {"entry", "x1", "x2", "x3", "returned"}
  /\ status \in {"none", "complete"}
  /\ \A t \in Threads : tpc[t] \in {"idle", "recon", "bar1", "solve", "bar2", "done"}

\* ====================== problem generators ======================
\* Model of ProblemGenerator::OrszagTang_ (src/src/pgen/orszag_tang.cpp) and
\* of ProblemGenerator::UserProblem and ParticleHistory
\* (src/src/pgen/part_static_turb.cpp).  The iterations of a kernel share
\* nothing but the arrays, and every access to those is recorded per location
\* with the iteration that made it, so a kernel's iterations are run in the
\* order of the flat index.

\* ---- bounds of the particle model ----
NumPart == 2           \* particles in the pack (nprtcl_thispack)
NumSpecies == 2        \* largest number of particle species
NumGen == 3            \* generator states of the pool; frand() returns n/NumGen
NumDisp == 1           \* largest displacement of a particle

Max(a, b) == IF a >= b THEN a ELSE b
Min(a, b) == IF a <= b THEN a ELSE b

\* active cells of the pack, and their number
ActiveCells ==
  {<<m, k, j, i>> : m \in 0 .. (nmb - 1), k \in cells.ks .. cells.ke,
                    j \in cells.js .. cells.je, i \in cells.is .. cells.ie}
NumCells == nmb * cells.nx3 * cells.nx2 * cells.nx1

\* par_for(0,nmb-1, ks,ke, js,je, is,ie): the cell of the n-th iteration
IterCell(n) ==
  <<n \div (cells.nx3 * cells.nx2 * cells.nx1),
    cells.ks + ((n \div (cells.nx2 * cells.nx1)) % cells.nx3),
    cells.js + ((n \div cells.nx1) % cells.nx2),
    cells.is + (n % cells.nx1)>>

\* a kernel that leaves out the extra face at the upper edges
FaceWrites_NoEdge(c) == {<<1, c[1], c[2], c[3], c[4]>>, <<2, c[1], c[2], c[3], c[4]>>,
                         <<3, c[1], c[2], c[3], c[4]>>}

\* faces <<component, m, k, j, i>> of b0 the iteration of cell c writes: its
\* own lower faces, and the extra upper face where the cell is the last of
\* its direction
FaceWrites(c) ==
  LET m == c[1]
      k == c[2]
      j == c[3]
      i == c[4]
  IN {<<1, m, k, j, i>>, <<2, m, k, j, i>>, <<3, m, k, j, i>>}
       \cup (IF i = cells.ie THEN {<<1, m, k, j, i + 1>>} ELSE {})
       \cup (IF j = cells.je THEN {<<2, m, k, j + 1, i>>} ELSE {})
       \cup (IF k = cells.ke THEN {<<3, m, k + 1, j, i>>} ELSE {})

\* faces of b0 the energy kernel reads for cell c
FaceReads(c) ==
  LET m == c[1]
      k == c[2]
      j == c[3]
      i == c[4]
  IN {<<1, m, k, j, i>>, <<1, m, k, j, i + 1>>, <<2, m, k, j, i>>,
      <<2, m, k, j + 1, i>>, <<3, m, k, j, i>>, <<3, m, k + 1, j, i>>}

\* b0w after iteration who wrote the faces fs
FacesWritten(fs, who) ==
  [f \in DOMAIN b0w \cup fs |->
     (IF f \in DOMAIN b0w THEN b0w[f] ELSE {}) \cup (IF f \in fs THEN {who} ELSE {})]

\* u0w after the variables vs of cell c were written
VarsWritten(c, vs) ==
  [x \in DOMAIN u0w \cup {c} |->
     (IF x \in DOMAIN u0w THEN u0w[x] ELSE {}) \cup (IF x = c THEN vs ELSE {})]

Momenta == {"IDN", "IM1", "IM2", "IM3"}

pgmesh == <<cfgvars, mhdvars>>
partvars == <<npart, nspecies, npart_spec, gids, pool, pi_gid, pi_sp, pr_pos, pr_disp>>
histvars == <<hsum, hcount, hdata>>
pginputs == <<call, pmhd, ppart, restart, is_ideal>>

\* a test for the MHD object that never fails
NoMhdObject_Never == FALSE

\* "if (pmbp->pmhd == nullptr)", "if (pmbp->ppart == nullptr)"
NoMhdObject == ~pmhd
NoParticlesObject == ~ppart

\* ---- OrszagTang_: lines 45-72 ----
\* Without an MHD object the run is ended by exit(EXIT_FAILURE); otherwise
\* the global B0 is assigned and the first kernel is launched.
OT_Enter ==
  /\ call = "OrszagTang_" /\ ppc = "entry"
  /\ IF NoMhdObject
     THEN /\ ppc' = "fatal"
          /\ accessed' = accessed
     ELSE /\ ppc' = "pgen_ot1"
          /\ accessed' = accessed \cup {"B0"}
  /\ kidx' = 0
  /\ UNCHANGED <<pgmesh, pginputs, u0w, b0w, stale, partvars, visits, dtterms, histvars>>

\* ---- one iteration of pgen_ot1: lines 73-106 ----
OT1_Iter ==
  /\ ppc = "pgen_ot1" /\ kidx < NumCells
  /\ LET c == IterCell(kidx)
     IN /\ u0w' = VarsWritten(c, Momenta)
        /\ b0w' = FacesWritten(FaceWrites(c), <<"pgen_ot1", c>>)
  /\ accessed' = accessed \cup {"u0", "b0", "mbsize", "B0"}
  /\ kidx' = kidx + 1
  /\ UNCHANGED <<pgmesh, pginputs, ppc, stale, partvars, visits, dtterms, histvars>>

\* ---- pgen_ot1 has finished, pgen_ot2 is launched: line 110 ----
OT1_Done ==
  /\ ppc = "pgen_ot1" /\ kidx = NumCells
  /\ ppc' = "pgen_ot2"
  /\ kidx' = 0
  /\ UNCHANGED <<pgmesh, pginputs, accessed, u0w, b0w, stale, partvars, visits,
                 dtterms, histvars>>

\* ---- one iteration of pgen_ot2: lines 111-118 ----
OT2_Iter ==
  /\ ppc = "pgen_ot2" /\ kidx < NumCells
  /\ LET c == IterCell(kidx)
     IN /\ stale' = stale \cup {<<f, c>> : f \in FaceReads(c) \ DOMAIN b0w}
        /\ u0w' = VarsWritten(c, {"IEN"})
  /\ kidx' = kidx + 1
  /\ UNCHANGED <<pgmesh, pginputs, ppc, accessed, b0w, partvars, visits, dtterms,
                 histvars>>

\* ---- line 121 ----
OT2_Done ==
  /\ ppc = "pgen_ot2" /\ kidx = NumCells
  /\ ppc' = "returned"
  /\ UNCHANGED <<pgmesh, pginputs, kidx, accessed, u0w, b0w, stale, partvars, visits,
                 dtterms, histvars>>

\* ---- the particle kernel of UserProblem ----
Particles == 0 .. (npart - 1)
GenStates == 0 .. (NumGen - 1)

\* numerator of the n-th frand() of a generator in state g: a value of [0,1)
Frand(g, n) == (g + n) % NumGen

\* last global block id of the pack
gide == gids + nmb - 1

\* "static_cast<int>(rand_gen.frand()*(gide - gids + 1.0))", then the clamps
\* of lines 81-82
ParentBlock(g) == Min(Max((Frand(g, 0) * (gide - gids + 1)) \div NumGen, 0), nmb - 1)

\* a species index without the clamp to nspecies-1
Species_NoClamp(p) == Max(p \div npart_spec, 0)

\* "p / npart_spec", then the clamps of lines 85-86
Species(p) == Min(Max(p \div npart_spec, 0), nspecies - 1)

\* mbsize of block m in direction d, as [min, max]: blocks lie side by side
\* along x1; positions are kept in units of 1/NumGen
BlockMin(m, d) == NumGen * (IF d = 1 THEN m ELSE IF d = 2 THEN -1 ELSE 0)
BlockMax(m, d) == NumGen * (IF d = 1 THEN m + 1 ELSE 1)

\* "(1. - rand)*min + rand*max", then fmin with max and fmax with min
Position(g, m, d) ==
  LET rand == Frand(g, d)
      x == ((NumGen - rand) * BlockMin(m, d) + rand * BlockMax(m, d)) \div NumGen
  IN Max(Min(x, BlockMax(m, d)), BlockMin(m, d))

\* ---- UserProblem: lines 36-76 ----
\* The history function is enrolled; without a particles object the run is
\* ended by exit(EXIT_FAILURE), otherwise the particle kernel is launched.
UP_Enter ==
  /\ call = "UserProblem" /\ ppc = "entry"
  /\ accessed' = accessed \cup {"user_hist_func"}
  /\ ppc' = IF NoParticlesObject THEN "fatal" ELSE "part_update"
  /\ kidx' = 0
  /\ UNCHANGED <<pgmesh, pginputs, u0w, b0w, stale, partvars, visits, dtterms, histvars>>

\* ---- one iteration of part_update: lines 77-118 ----
UP_PartUpdate ==
  /\ ppc = "part_update" /\ kidx <= npart - 1
  /\ LET p == kidx
         g == pool[p]
         m == ParentBlock(g)
     IN /\ pi_gid' = (p :> (gids + m)) @@ pi_gid
        /\ pi_sp' = (p :> Species(p)) @@ pi_sp
        /\ pr_pos' = (p :> <<Position(g, m, 1), Position(g, m, 2), Position(g, m, 3)>>)
                       @@ pr_pos
        /\ pr_disp' = (p :> <<0, 0, 0, 0>>) @@ pr_disp
  /\ accessed' = accessed \cup {"prtcl_idata", "prtcl_rdata", "mbsize"}
  /\ kidx' = kidx + 1
  /\ UNCHANGED <<pgmesh, pginputs, ppc, u0w, b0w, stale, npart, nspecies, npart_spec,
                 gids, pool, visits, dtterms, histvars>>

\* a branch test that never takes the restart branch
RestartBranch_Never == FALSE

\* line 129: "if (restart)"
RestartBranch == restart

\* ---- the time step from the mesh spacing, and the branch: lines 123-129 ----
UP_SetDt ==
  /\ ppc = "part_update" /\ kidx = npart
  /\ dtterms' = dtterms \cup {"dx1", "dx2", "dx3"}
  /\ accessed' = accessed \cup {"dtnew", "mbsize"}
  /\ ppc' = IF RestartBranch THEN "restart" ELSE "init_mhd"
  /\ kidx' = 0
  /\ UNCHANGED <<pgmesh, pginputs, u0w, b0w, stale, partvars, visits, histvars>>

\* a decomposition that divides the row offset by nx2
DecodeIdx_DivNx2(idx) ==
  LET nkji == cells.nx3 * cells.nx2 * cells.nx1
      nji == cells.nx2 * cells.nx1
      m == idx \div nkji
      k == (idx - m * nkji) \div nji
      j == (idx - m * nkji - k * nji) \div cells.nx2
      i == (idx - m * nkji - k * nji - j * cells.nx1) + cells.is
  IN <<m, k + cells.ks, j + cells.js, i>>

\* lines 151-156: (m,k,j,i) of the flat index idx
DecodeIdx(idx) ==
  LET nkji == cells.nx3 * cells.nx2 * cells.nx1
      nji == cells.nx2 * cells.nx1
      m == idx \div nkji
      k == (idx - m * nkji) \div nji
      j == (idx - m * nkji - k * nji) \div cells.nx1
      i == (idx - m * nkji - k * nji - j * cells.nx1) + cells.is
  IN <<m, k + cells.ks, j + cells.js, i>>

\* line 142
nmkji == nmb * cells.nx3 * cells.nx2 * cells.nx1

\* ---- one iteration of pgen_restart_w_part: lines 149-161 ----
\* Without an MHD object b is a reference through a null pointer: the read
\* either ends the run or yields some value.
UP_RestartIter ==
  /\ ppc = "restart" /\ kidx < nmkji
  /\ LET c == DecodeIdx(kidx)
     IN visits' = (c :> ((IF c \in DOMAIN visits THEN visits[c] ELSE 0) + 1)) @@ visits
  /\ accessed' = accessed \cup {"b0"}
  /\ kidx' = kidx + 1
  /\ IF pmhd THEN ppc' = ppc ELSE ppc' \in {ppc, "crashed"}
  /\ UNCHANGED <<pgmesh, pginputs, u0w, b0w, stale, partvars, dtterms, histvars>>

\* ---- lines 163-164 ----
UP_RestartDone ==
  /\ ppc = "restart" /\ kidx = nmkji
  /\ dtterms' = dtterms \cup {"dtOmega"}
  /\ ppc' = "returned"
  /\ UNCHANGED <<pgmesh, pginputs, kidx, accessed, u0w, b0w, stale, partvars, visits,
                 histvars>>

\* ---- one iteration of pgen_mhd: lines 182-208 ----
UP_MhdIter ==
  /\ ppc = "init_mhd" /\ pmhd /\ kidx < NumCells
  /\ LET c == IterCell(kidx)
     IN /\ u0w' = VarsWritten(c, Momenta \cup (IF is_ideal THEN {"IEN"} ELSE {}))
        /\ b0w' = FacesWritten(FaceWrites(c), <<"pgen_mhd", c>>)
  /\ accessed' = accessed \cup {"u0", "b0"}
  /\ kidx' = kidx + 1
  /\ UNCHANGED <<pgmesh, pginputs, ppc, stale, partvars, visits, dtterms, histvars>>

\* ---- lines 209-211 ----
UP_MhdDone ==
  /\ ppc = "init_mhd" /\ (~pmhd \/ kidx = NumCells)
  /\ dtterms' = dtterms \cup {"B0z"}
  /\ ppc' = "returned"
  /\ UNCHANGED <<pgmesh, pginputs, kidx, accessed, u0w, b0w, stale, partvars, visits,
                 histvars>>

\* ---- ParticleHistory: lines 218-266 ----
nfields == 4

\* Kokkos::RangePolicy<>(space, b, e): the indices b .. e-1
RangePolicy(b, e) == b .. (e - 1)

\* displacement vectors <<dx,dy,dz,db>> a particle may have accumulated
Displacements == {<<d, d + 1, d + 2, d + 3>> : d \in 0 .. NumDisp}

\* hvars of particle p: SQR(pr(IPD*,p))/nprtcl_total*nspecies in the four
\* fields of the particle's species, zero elsewhere (units of 1/nprtcl_total)
HVars(p) ==
  [n \in 0 .. (nfields * nspecies - 1) |->
     IF n \div nfields = pi_sp[p]
     THEN pr_disp[p][(n % nfields) + 1] * pr_disp[p][(n % nfields) + 1] * nspecies
     ELSE 0]

\* ---- lines 218-239: nhist, the labels, the zero sum ----
PH_Enter ==
  /\ call = "ParticleHistory" /\ ppc = "entry"
  /\ hsum' = [n \in 0 .. (nfields * nspecies - 1) |-> 0]
  /\ hcount' = [p \in Particles |-> 0]
  /\ ppc' = "HistSums"
  /\ kidx' = 0
  /\ UNCHANGED <<pgmesh, pginputs, accessed, u0w, b0w, stale, partvars, visits,
                 dtterms, hdata>>

\* ---- one iteration of HistSums: lines 240-257 ----
PH_Iter ==
  /\ ppc = "HistSums" /\ kidx \in RangePolicy(0, npart - 1)
  /\ hsum' = [n \in DOMAIN hsum |-> hsum[n] + HVars(kidx)[n]]
  /\ hcount' = [hcount EXCEPT ![kidx] = @ + 1]
  /\ accessed' = accessed \cup {"prtcl_idata", "prtcl_rdata"}
  /\ kidx' = kidx + 1
  /\ UNCHANGED <<pgmesh, pginputs, ppc, u0w, b0w, stale, partvars, visits, dtterms,
                 hdata>>

\* ---- lines 258-265: the sums are stored into hdata ----
PH_Store ==
  /\ ppc = "HistSums" /\ kidx \notin RangePolicy(0, npart - 1)
  /\ hdata' = hsum
  /\ ppc' = "returned"
  /\ UNCHANGED <<pgmesh, pginputs, kidx, accessed, u0w, b0w, stale, partvars, visits,
                 dtterms, hsum, hcount>>

\* ---- the state at the call of a problem generator or history function ----
NoParticles ==
  /\ npart = 0 /\ nspecies = 0 /\ npart_spec = 0 /\ gids = 0
  /\ pool = EmptyMap
  /\ pi_gid = EmptyMap /\ pi_sp = EmptyMap /\ pr_pos = EmptyMap /\ pr_disp = EmptyMap

\* a pack with particles: counts, first block id and the generator pool
SomeParticles ==
  /\ npart = NumPart
  /\ nspecies \in 1 .. NumSpecies
  /\ npart_spec \in 1 .. NumPart
  /\ gids \in {0, NumBlocks}
  /\ pool \in [0 .. (NumPart - 1) -> GenStates]

\* one species, every particle with the generator state 0
PlainParticles ==
  /\ npart = NumPart
  /\ nspecies = 1
  /\ npart_spec = NumPart
  /\ gids = 0
  /\ pool = [p \in 0 .. (NumPart - 1) |-> 0]

\* a mesh with extent in x1 only
Mesh1D ==
  /\ nx2gt1 = FALSE /\ nx3gt1 = FALSE
  /\ cells = GridIndices(2, Nx1, 1, 1)
  /\ nmb = NumBlocks

\* The particle kernels read no mesh index and the cell kernels no particle:
\* the meshes are varied with the plain particles, and the particles with
\* the 1D mesh.
PgenInit ==
  /\ recon_method = "plm" /\ rsolver_method = "llf"
  /\ MhdStart
  /\ ppc = "entry"
  /\ kidx = 0
  /\ accessed = {}
  /\ u0w = EmptyMap /\ b0w = EmptyMap /\ stale = {}
  /\ visits = EmptyMap
  /\ dtterms = {}
  /\ hsum = EmptyMap /\ hcount = EmptyMap /\ hdata = EmptyMap
  /\ \/ /\ call = "OrszagTang_"
        /\ MeshConfig
        /\ pmhd \in BOOLEAN
        /\ ppart = FALSE /\ restart = FALSE /\ is_ideal = TRUE
        /\ NoParticles
     \/ /\ call = "UserProblem"
        /\ pmhd \in BOOLEAN /\ restart \in BOOLEAN
        /\ is_ideal \in BOOLEAN /\ (is_ideal => (pmhd /\ ~restart))
        /\ \/ ppart = FALSE /\ NoParticles /\ MeshConfig
           \/ /\ ppart = TRUE
              /\ \/ MeshConfig /\ PlainParticles
                 \/ Mesh1D /\ SomeParticles
              /\ pi_gid = EmptyMap /\ pi_sp = EmptyMap
              /\ pr_pos = EmptyMap /\ pr_disp = EmptyMap
     \/ /\ call = "ParticleHistory"
        /\ pmhd = TRUE /\ ppart = TRUE /\ restart = FALSE /\ is_ideal = FALSE
        /\ Mesh1D
        /\ SomeParticles
        /\ pi_gid = [p \in 0 .. (NumPart - 1) |-> gids + ParentBlock(pool[p])]
        /\ pi_sp = [p \in 0 .. (NumPart - 1) |-> Species(p)]
        /\ pr_pos = [p \in 0 .. (NumPart - 1) |-> <<0, 0, 0>>]
        /\ pr_disp \in [0 .. (NumPart - 1) -> Displacements]

PgenNext ==
  \/ OT_Enter
  \/ OT1_Iter
  \/ OT1_Done
  \/ OT2_Iter
  \/ OT2_Done
  \/ UP_Enter
  \/ UP_PartUpdate
  \/ UP_SetDt
  \/ UP_RestartIter
  \/ UP_RestartDone
  \/ UP_MhdIter
  \/ UP_MhdDone
  \/ PH_Enter
  \/ PH_Iter
  \/ PH_Store

PgenSpec == PgenInit /\ [][PgenNext]_vars

\* ======================= properties =======================

\* thread u has finished the reconstruction of loop index n (direction 1
\* has the single index LoopStart(1))
ReconDone(u, n) ==
  \/ tpc[u] = "done"
  \/ it[u] > n
  \/ it[u] = n /\ tpc[u] \in {"bar1", "solve", "bar2"}

\* the whole line the solver may read at loop index idx holds reconstructed
\* left and right states, fluid and field
LineReconstructed(d, idx) ==
  LET v == Views(d, idx)
      rg == SolveRange(d)
  IN \A i \in rg.il .. rg.iu :
       /\ scratch[v.wl][i].role = "ql" /\ scratch[v.wr][i].role = "qr"
       /\ scratch[v.bl][i].role = "ql" /\ scratch[v.br][i].role = "qr"

\* C1: in every swept direction, when a thread of a unit is in the solve
\* phase of an iteration, every thread of the unit has finished the
\* reconstruction of that iteration, and (for an implemented reconstruction)
\* the left/right buffers of the line are completely written.
C1_ReconstructionBeforeSolve ==
  running =>
    \A t \in Threads :
      tpc[t] = "solve" =>
        /\ \A u \in Threads : ReconDone(u, it[t])
        /\ recon_method \in KnownRecon => LineReconstructed(CurDir, it[t])

C1_Witness ==
  /\ running /\ CurDir = 1 /\ recon_method \in KnownRecon
  /\ \E t, u \in Threads : t # u /\ tpc[t] = "solve" /\ tpc[u] = "solve"

\* the face along the swept axis of a flux location <<m,k,j,i>>
FaceOf(d, x) == IF d = 1 THEN x[4] ELSE IF d = 2 THEN x[3] ELSE x[2]

\* thread t has finished the solve of loop index n (directions 2 and 3)
SolveDone(t, n) ==
  /\ n > LoopStart(CurDir)
  /\ it[t] > n \/ (it[t] = n /\ tpc[t] = "bar2")

\* C2: in directions 2 and 3, at every loop step after the first, the slot
\* read as 'left' is the slot the previous step wrote as 'left-next', the
\* reconstruction of the step does not write it, and what the solve reads is
\* the left-next state of the previous step and the right state of this
\* step, which is what the flux and EMF of the face are made from; fluid
\* and field buffers alike.
C2_PingPong ==
  /\ running /\ CurDir \in {2, 3} =>
       \A t \in Threads :
         (tpc[t] # "done" /\ it[t] > LoopStart(CurDir)) =>
           LET d == CurDir
               v == Views(d, it[t])
               p == Views(d, it[t] - 1)
               rg == SolveRange(d)
           IN /\ v.wl = p.wln /\ v.wl # v.wln /\ v.wl # v.wr
              /\ v.bl = p.bln /\ v.bl # v.bln /\ v.bl # v.br
              /\ {v.wl, v.wln, v.wr} \cap {v.bl, v.bln, v.br} = {}
              /\ (tpc[t] = "solve" /\ recon_method \in KnownRecon) =>
                   \A i \in Share(t, rg.il, rg.iu) :
                     /\ scratch[v.wl][i] = QL(it[t] - 1)
                     /\ scratch[v.wr][i] = QR(it[t])
                     /\ scratch[v.bl][i] = QL(it[t] - 1)
                     /\ scratch[v.br][i] = QR(it[t])
  /\ (running /\ CurDir \in {2, 3} /\ recon_method \in KnownRecon
        /\ rsolver_method \in KnownRSolvers) =>
       \A t \in Threads :
         \A n \in (LoopStart(CurDir) + 1) .. LoopEnd(CurDir) :
           SolveDone(t, n) =>
             LET a == ArgsOf(CurDir, lrank, n)
                 rg == SolveRange(CurDir)
             IN \A i \in Share(t, rg.il, rg.iu) :
                  LET x == <<a.m, a.k, a.j, i>>
                  IN /\ x \in DOMAIN flux[CurDir] /\ x \in DOMAIN emf[CurDir]
                     /\ flux[CurDir][x].l = QL(n - 1) /\ flux[CurDir][x].r = QR(n)
                     /\ emf[CurDir][x].l = QL(n - 1) /\ emf[CurDir][x].r = QR(n)

C2_Witness ==
  /\ running /\ CurDir = 3 /\ cells.ng = 3 /\ recon_method = "plm"
  /\ rsolver_method = "llf"
  /\ \E t \in Threads : tpc[t] = "solve" /\ it[t] = LoopStart(3) + 3
  /\ flux[2] # EmptyMap

\* C3: within one call no flux or EMF location is written twice (write
\* counts only grow, so they are read when a sweep ends and at the return),
\* and no thread of a unit hands the same (direction, m, k, j) to the solver
\* twice: no two units and no two iterations of a unit solve the same faces.
C3_SingleSolvePerFace ==
  /\ \A d \in 1 .. 3 :
       (DispatchDone(d) \/ pc = "returned") =>
         /\ \A x \in DOMAIN flux[d] : flux[d][x].n = 1
         /\ \A x \in DOMAIN emf[d] : emf[d][x].n = 1
  /\ \A x \in DOMAIN rscalls : rscalls[x].n = 1

C3_Witness ==
  /\ pc = "returned"
  /\ \A d \in 1 .. 3 : flux[d] # EmptyMap /\ emf[d] # EmptyMap

\* every thread of the running unit has left the lambda
UnitEnd == running /\ \A t \in Threads : tpc[t] = "done"

\* the sweep of direction d has just finished, or the call has returned
\* after it
SweepEnd(d) ==
  \/ DispatchDone(d)
  \/ pc = "returned" /\ \E n \in DOMAIN launched : launched[n] = d

\* the flux/EMF locations <<m,k,j,i>> of direction d's faces: nx+1 face
\* positions along the swept axis
ExpectedFaces(d) ==
  {<<m, k, j, i>> :
     m \in 0 .. (nmb - 1),
     k \in cells.ks .. (IF d = 3 THEN cells.ke + 1 ELSE cells.ke),
     j \in cells.js .. (IF d = 2 THEN cells.je + 1 ELSE cells.je),
     i \in (IF d = 1 THEN cells.is ELSE cells.is - 1) .. (cells.ie + 1)}

Untouched(d) == flux[d] = EmptyMap /\ emf[d] = EmptyMap

PartiallyWritten(d) ==
  \/ flux[d] # EmptyMap /\ DOMAIN flux[d] # ExpectedFaces(d)
  \/ emf[d] # EmptyMap /\ DOMAIN emf[d] # ExpectedFaces(d)

\* C4: a call with a solver selector that matches no implemented solver
\* returns a status other than 'complete' and leaves no flux or EMF array
\* partially written.
C4_UnknownSolverReported ==
  (pc = "returned" /\ rsolver_method \notin KnownRSolvers) =>
    /\ status # "complete"
    /\ \A d \in 1 .. 3 : ~PartiallyWritten(d)

ExpectedOut1 ==
  IF rsolver_method \in KnownRSolvers
  THEN [x \in ExpectedFaces(1) |->
         IF recon_method \in KnownRecon
         THEN [l |-> QL(x[4] - 1), r |-> QR(x[4]), n |-> 1]
         ELSE [l |-> Uninit, r |-> Uninit, n |-> 1]]
  ELSE EmptyMap

\* C6: without extent in dimension 2 only direction 1 is dispatched, no
\* scratch is sized or allocated for directions 2 and 3, their flux/EMF
\* arrays stay untouched, and flux1/emf_x1 are what the block indices and
\* selectors determine, whatever nx3gt1 is; with extent in dimension 2 but
\* not 3, direction 3 is not dispatched and flux3/emf_x3 stay untouched.
C6_SweepSkipping ==
  /\ ~nx2gt1 =>
       /\ \A n \in DOMAIN launched : launched[n] = 1
       /\ DOMAIN sized \subseteq {1}
       /\ allocated \subseteq {1}
       /\ Untouched(2) /\ Untouched(3)
       /\ pc = "returned" =>
            /\ status = "complete"
            /\ flux[1] = ExpectedOut1 /\ emf[1] = ExpectedOut1
  /\ (nx2gt1 /\ ~nx3gt1) =>
       /\ \A n \in DOMAIN launched : launched[n] # 3
       /\ 3 \notin allocated
       /\ Untouched(3)

C6_Witness ==
  /\ pc = "returned" /\ ~nx2gt1 /\ nx3gt1
  /\ rsolver_method = "advect" /\ flux[1] # EmptyMap

\* C7 as stated: when a thread solves loop iteration n, the reconstruction
\* of iteration n+1 has completed in the unit.
C7_NextReconBeforeSolve ==
  (running /\ CurDir \in {2, 3}) =>
    \A t \in Threads :
      (tpc[t] = "solve" /\ it[t] < LoopEnd(CurDir)) =>
        \A u \in Threads : ReconDone(u, it[t] + 1)

\* C7 amended: in directions 2 and 3, when a thread solves loop iteration n,
\* there is an iteration n-1, every thread of the unit has completed the
\* reconstruction of iterations n-1 and n, and the solving thread has not
\* done the reconstruction of iteration n+1.
C7_ReconOfPrevAndThisBeforeSolve ==
  (running /\ CurDir \in {2, 3}) =>
    \A t \in Threads :
      tpc[t] = "solve" =>
        /\ it[t] - 1 >= LoopStart(CurDir)
        /\ \A u \in Threads : ReconDone(u, it[t] - 1) /\ ReconDone(u, it[t])
        /\ ~ReconDone(t, it[t] + 1)

C7_Witness ==
  /\ running /\ CurDir = 2
  /\ \E t \in Threads : tpc[t] = "solve" /\ it[t] = LoopStart(2) + 1

\* first active index and number of active cells along the swept axis
AxisStart(d) == IF d = 1 THEN cells.is ELSE IF d = 2 THEN cells.js ELSE cells.ks
AxisN(d) == IF d = 1 THEN cells.nx1 ELSE IF d = 2 THEN cells.nx2 ELSE cells.nx3

\* the call key of thread t of the running unit at loop index idx
KeyOf(t, idx) ==
  LET a == ArgsOf(CurDir, lrank, idx)
  IN <<CurDir, a.m, a.k, a.j, t>>

\* the switches a thread executes in a unit of direction d whose loop runs
\* over the active cells [s, s+n-1]: reconstruction alone at s-1, then
\* reconstruction and solve at each of the n+1 indices s .. s+n
LoopPhases(s, n) ==
  [p \in 1 .. (2 * n + 3) |->
     IF p = 1 THEN <<"recon", s - 1>>
     ELSE IF p % 2 = 0 THEN <<"recon", s + (p \div 2) - 1>>
     ELSE <<"solve", s + ((p - 1) \div 2) - 1>>]

\* C8: in directions 2 and 3 the first loop iteration (js-1, ks-1) only
\* reconstructs, and every later iteration j in [js,je+1] (k in [ks,ke+1])
\* reaches the solver switch exactly once, nx+1 times in all; with an
\* implemented solver each of these is one solver call, and a finished sweep
\* of any direction has written exactly the nx+1 face positions [s, e+1] of
\* the swept axis, in every unit.
C8_SolvedFaces ==
  /\ (running /\ CurDir \in {2, 3}) =>
       \A t \in Threads : it[t] = LoopStart(CurDir) => tpc[t] \in {"recon", "bar1"}
  /\ (UnitEnd /\ CurDir \in {2, 3}) =>
       \A t \in Threads :
         /\ phases[t] = LoopPhases(AxisStart(CurDir), AxisN(CurDir))
         /\ Cardinality({p \in DOMAIN phases[t] : phases[t][p][1] = "solve"})
              = AxisN(CurDir) + 1
  /\ (UnitEnd /\ CurDir \in {2, 3} /\ rsolver_method \in KnownRSolvers) =>
       \A t \in Threads :
         /\ KeyOf(t, LoopStart(CurDir)) \notin DOMAIN rscalls
         /\ \A idx \in (LoopStart(CurDir) + 1) .. (AxisStart(CurDir) + AxisN(CurDir)) :
              /\ KeyOf(t, idx) \in DOMAIN rscalls
              /\ rscalls[KeyOf(t, idx)].n = 1
         /\ Cardinality({x \in DOMAIN rscalls : x[5] = t}) = AxisN(CurDir) + 1
  /\ rsolver_method \in KnownRSolvers =>
       \A d \in 1 .. 3 :
         SweepEnd(d) =>
           /\ {FaceOf(d, x) : x \in DOMAIN flux[d]}
                 = AxisStart(d) .. (AxisStart(d) + AxisN(d))
           /\ Cardinality({FaceOf(d, x) : x \in DOMAIN flux[d]}) = AxisN(d) + 1
           /\ DOMAIN flux[d] = ExpectedFaces(d)
           /\ DOMAIN emf[d] = ExpectedFaces(d)

C8_Witness ==
  /\ pc = "returned" /\ rsolver_method = "llf" /\ recon_method = "ppm"
  /\ DOMAIN flux[3] = ExpectedFaces(3) /\ DOMAIN flux[2] = ExpectedFaces(2)

\* C9 as stated: in direction 1 reconstruction and solve are each called
\* once per unit, both over [is-1, ie+1].
C9_FullRangeBoth ==
  (UnitEnd /\ CurDir = 1) =>
    \A t \in Threads :
      /\ phases[t] = << <<"recon", 0>>, <<"solve", 0>> >>
      /\ recon_method \in KnownRecon =>
           /\ KeyOf(t, 0) \in DOMAIN rccalls
           /\ rccalls[KeyOf(t, 0)] = [il |-> cells.is - 1, iu |-> cells.ie + 1, n |-> 1]
      /\ rsolver_method \in KnownRSolvers =>
           /\ KeyOf(t, 0) \in DOMAIN rscalls
           /\ rscalls[KeyOf(t, 0)] = [il |-> cells.is - 1, iu |-> cells.ie + 1, n |-> 1]

\* C9 amended: in direction 1 every thread of every unit executes the
\* reconstruction switch once and then the solver switch once; an
\* implemented reconstruction is called over [is-1, ie+1] and an implemented
\* solver over the faces [is, ie+1], and no other call is made; no flux or
\* EMF of direction 1 is written outside the faces [is, ie+1].
C9_OncePerUnit ==
  /\ (UnitEnd /\ CurDir = 1) =>
       /\ \A t \in Threads :
            /\ phases[t] = << <<"recon", 0>>, <<"solve", 0>> >>
            /\ recon_method \in KnownRecon =>
                 /\ KeyOf(t, 0) \in DOMAIN rccalls
                 /\ rccalls[KeyOf(t, 0)]
                      = [il |-> cells.is - 1, iu |-> cells.ie + 1, n |-> 1]
            /\ rsolver_method \in KnownRSolvers =>
                 /\ KeyOf(t, 0) \in DOMAIN rscalls
                 /\ rscalls[KeyOf(t, 0)]
                      = [il |-> cells.is, iu |-> cells.ie + 1, n |-> 1]
       /\ DOMAIN rccalls \subseteq {KeyOf(t, 0) : t \in Threads}
       /\ DOMAIN rscalls \subseteq {KeyOf(t, 0) : t \in Threads}
       /\ recon_method \notin KnownRecon => rccalls = EmptyMap
       /\ rsolver_method \notin KnownRSolvers => rscalls = EmptyMap
  /\ SweepEnd(1) =>
       /\ \A x \in DOMAIN flux[1] : x[4] \in cells.is .. (cells.ie + 1)
       /\ \A x \in DOMAIN emf[1] : x[4] \in cells.is .. (cells.ie + 1)

C9_Witness ==
  /\ UnitEnd /\ CurDir = 1 /\ lrank = NumUnits(1) - 1
  /\ recon_method = "dc" /\ rsolver_method = "advect"
  /\ \A t \in Threads : KeyOf(t, 0) \in DOMAIN rscalls /\ KeyOf(t, 0) \in DOMAIN rccalls

\* C10: the nvars of the call is the object's number of MHD variables plus
\* its number of passive scalars.
C10_NvarsIsNmhdPlusNscalars ==
  pc # "entry" => nvars = nmhd_obj + nscalars

\* ---- the call under fair scheduling ----
\* Whatever step the call can take is eventually taken: the driver's
\* sequential code runs on, and a thread that can step is scheduled.
\* The selectors are one that has a case in its switch and one that falls to
\* the default, for reconstruction and solver each.
FairInit ==
  /\ Init
  /\ recon_method \in {"plm", "none"}
  /\ rsolver_method \in {"llf", "hlld"}

FairSpec == FairInit /\ [][Next]_vars /\ WF_vars(Next)

\* total size of a sequence of scratch views
RECURSIVE ViewsSize(_)
ViewsSize(vs) ==
  IF vs = << >> THEN 0 ELSE ShmemSize(Head(vs)[1], Head(vs)[2]) + ViewsSize(Tail(vs))

\* the directions dispatched so far
Dispatched == {launched[n] : n \in DOMAIN launched}

\* C11: each direction's scratch request is computed when the direction is
\* dispatched (once per direction, and it is the request in force while the
\* direction's units run); it is 2 fluid (nvars x ncells1) plus 2 field
\* (3 x ncells1) buffers in direction 1 and 3 plus 3 in directions 2 and 3;
\* a running unit has allocated exactly these views, whose total size is the
\* request, so no unit allocates more than was requested.
C11_ScratchRequestMatchesAllocation ==
  /\ DOMAIN sized = Dispatched
  /\ \A n, q \in DOMAIN launched : launched[n] = launched[q] => n = q
  /\ \A d \in DOMAIN sized :
       LET n == IF d = 1 THEN 2 ELSE 3
       IN sized[d] = n * ShmemSize(nvars, ncells1) + n * ShmemSize(3, ncells1)
  /\ CurDir # 0 => (CurDir \in DOMAIN sized /\ scr_size = sized[CurDir])
  /\ running =>
       LET n == IF CurDir = 1 THEN 2 ELSE 3
       IN /\ Len(alloc) = 2 * n
          /\ \A q \in 1 .. n : alloc[q] = <<nvars, ncells1>>
          /\ \A q \in (n + 1) .. (2 * n) : alloc[q] = <<3, ncells1>>
          /\ ViewsSize(alloc) = scr_size
          /\ ViewsSize(alloc) <= sized[CurDir]

C11_Witness ==
  /\ running /\ CurDir = 2 /\ lrank = NumUnits(2) - 1
  /\ Len(alloc) = 6 /\ scr_size > sized[1]

\* a thread of the running unit executes its reconstruction switch
ReconStep == \E t \in Threads : tpc[t] = "recon" /\ tpc'[t] = "bar1"

\* a thread of the running unit executes its solver switch
SolveStep == \E t \in Threads : tpc[t] = "solve" /\ tpc'[t] # "solve"

\* C12: the flux and EMF arrays of direction d change only in a solver step
\* of the sweep of direction d, and only that sweep's solver names them as
\* outputs; a reconstruction step changes no flux or EMF array and writes
\* only scratch views of the unit; and no step of the call writes w0, bcc0
\* or the face field b0.
C12_SweepWritesOwnArrays ==
  /\ [][\A d \in 1 .. 3 :
          (flux'[d] # flux[d] \/ emf'[d] # emf[d]) => (d = CurDir /\ SolveStep)]_vars
  /\ [][\A d \in 1 .. 3 :
          ({FluxName(d), EmfName(d)} \cap (written' \ written) # {})
            => (d = CurDir /\ SolveStep)]_vars
  /\ [][ReconStep =>
          /\ flux' = flux /\ emf' = emf
          /\ (written' \ written) \subseteq {ScratchName(s) : s \in Slots}]_vars
  /\ [][written' \cap InputArrays = {}]_vars
  /\ [](\A d \in 1 .. 3 : ~Untouched(d) => d \in Dispatched)

C12_Witness ==
  /\ running /\ CurDir = 2
  /\ ~Untouched(1) /\ ~Untouched(2) /\ Untouched(3)
  /\ FluxName(2) \in written /\ ScratchName(3) \in written

\* team barriers a thread passes in a unit of direction d: one per loop
\* iteration, and in direction 3 one more per iteration that solves
BarriersOfUnit(d) ==
  IF d = 1 THEN 1
  ELSE IF d = 2 THEN AxisN(2) + 2
  ELSE (AxisN(3) + 2) + (AxisN(3) + 1)

\* C13: under fair scheduling every call returns TaskStatus::complete; all
\* threads of a unit are at the same loop index whenever one of them leaves a
\* barrier, and all have made the same number of team_barrier calls when the
\* unit ends.
C13_Terminates ==
  /\ <>(pc = "returned" /\ status = "complete")
  /\ [](UnitEnd => \A t \in Threads : nbar[t] = BarriersOfUnit(CurDir))
  /\ [](running =>
          \A t, u \in Threads :
            (tpc[t] \in {"bar1", "bar2"} /\ tpc[u] = tpc[t]) => it[t] = it[u])

C13_Witness ==
  /\ UnitEnd /\ CurDir = 3 /\ lrank = NumUnits(3) - 1
  /\ \A t \in Threads : nbar[t] = 2 * cells.nx3 + 3

\* C14: in directions 2 and 3 no thread has done the reconstruction of loop
\* iteration n+1 while another thread of the unit is in the solve of
\* iteration n.
C14_NoReconDuringSolve ==
  (running /\ CurDir \in {2, 3}) =>
    \A t, u \in Threads :
      (t # u /\ tpc[u] = "solve") =>
        ~(it[t] = it[u] + 1 /\ tpc[t] \in {"bar1", "solve", "bar2"})

\* the directions in which the mesh has extent, in order
ExtentDirs ==
  <<1>> \o (IF nx2gt1 THEN <<2>> ELSE << >>) \o (IF nx3gt1 THEN <<3>> ELSE << >>)

\* C15: a call that has returned dispatched exactly the directions in which
\* the mesh has extent, in the order 1, 2, 3.
C15_SweepsMatchExtent ==
  pc = "returned" => launched = ExtentDirs

\* sum of the hvars of the particles ps
RECURSIVE SumHVars(_, _)
SumHVars(ps, n) ==
  IF ps = {} THEN 0
  ELSE LET p == CHOOSE q \in ps : TRUE
       IN HVars(p)[n] + SumHVars(ps \ {p}, n)

\* C16: when ParticleHistory has returned, every particle of the pack was
\* added to the sums exactly once, and hdata holds, per species and field,
\* the sum of the contributions of all particles 0 .. npart-1.
C16_AllParticlesAccumulated ==
  (call = "ParticleHistory" /\ ppc = "returned") =>
    /\ \A p \in Particles : hcount[p] = 1
    /\ \A n \in DOMAIN hdata : hdata[n] = SumHVars(Particles, n)

\* the face locations of b0 of the active region: one more face than cells
\* along each component's own direction
ExpectedB0Faces ==
  {<<1, c[1], c[2], c[3], i>> : c \in ActiveCells, i \in cells.is .. (cells.ie + 1)}
    \cup {<<2, c[1], c[2], j, c[4]>> : c \in ActiveCells, j \in cells.js .. (cells.je + 1)}
    \cup {<<3, c[1], k, c[3], c[4]>> : c \in ActiveCells, k \in cells.ks .. (cells.ke + 1)}

\* C17: in OrszagTang_ no face is ever written by two iterations, and writes
\* come from pgen_ot1 and go to faces of the active region only; once
\* pgen_ot2 runs, every face of the active region, the upper faces at ie+1,
\* je+1, ke+1 included, has been written by exactly one iteration; and
\* pgen_ot2 never reads a face that had not been written.
C17_FacesWrittenOnceBeforeRead ==
  call = "OrszagTang_" =>
    /\ DOMAIN b0w \subseteq ExpectedB0Faces
    /\ \A f \in DOMAIN b0w :
         /\ Cardinality(b0w[f]) = 1
         /\ \A w \in b0w[f] : w[1] = "pgen_ot1" /\ w[2] \in ActiveCells
    /\ stale = {}
    /\ ppc \in {"pgen_ot2", "returned"} =>
         /\ DOMAIN b0w = ExpectedB0Faces
         /\ \A c \in ActiveCells : FaceReads(c) \subseteq DOMAIN b0w
    /\ ppc = "pgen_ot1" => \A c \in DOMAIN u0w : "IEN" \notin u0w[c]

C17_Witness ==
  /\ call = "OrszagTang_" /\ ppc = "returned" /\ nx2gt1 /\ nx3gt1
  /\ <<3, nmb - 1, cells.ke + 1, cells.je, cells.ie>> \in DOMAIN b0w
  /\ \A c \in ActiveCells : "IEN" \in u0w[c]

\* C18: without an MHD object OrszagTang_ gets no further than the fatal
\* exit: it reads and writes no u0 or b0, does not assign B0 and never
\* returns; without a particles object UserProblem gets no further than the
\* fatal exit and touches no particle data.
C18_FatalBeforeAccess ==
  /\ (call = "OrszagTang_" /\ ~pmhd) =>
       /\ ppc \in {"entry", "fatal"}
       /\ accessed = {}
       /\ u0w = EmptyMap /\ b0w = EmptyMap
  /\ (call = "UserProblem" /\ ~ppart) =>
       /\ ppc \in {"entry", "fatal"}
       /\ accessed \cap {"prtcl_idata", "prtcl_rdata"} = {}
       /\ pi_gid = EmptyMap /\ pi_sp = EmptyMap
       /\ pr_pos = EmptyMap /\ pr_disp = EmptyMap

C18_Witness ==
  /\ call = "OrszagTang_" /\ ~pmhd /\ ppc = "fatal"

\* the particle kernel of UserProblem has finished
PartUpdateDone ==
  /\ call = "UserProblem"
  /\ \/ ppc = "part_update" /\ kidx = npart
     \/ ppc \in {"restart", "init_mhd", "returned", "crashed"}

\* C19: every particle the kernel has initialised has a species index in
\* [0, nspecies-1], not smaller than that of the particle before it, a parent
\* block id in [gids, gids+nmb-1], and a position within the closed bounds of
\* that block in each direction; after the kernel these are all particles
\* 0 .. npart-1.
C19_ParticlesInRange ==
  call = "UserProblem" =>
    /\ DOMAIN pi_sp = DOMAIN pi_gid /\ DOMAIN pr_pos = DOMAIN pi_gid
    /\ \A p \in DOMAIN pi_gid :
         /\ pi_sp[p] \in 0 .. (nspecies - 1)
         /\ (p - 1) \in DOMAIN pi_sp => pi_sp[p - 1] <= pi_sp[p]
         /\ pi_gid[p] \in gids .. (gids + nmb - 1)
         /\ \A d \in 1 .. 3 :
              /\ pr_pos[p][d] >= BlockMin(pi_gid[p] - gids, d)
              /\ pr_pos[p][d] <= BlockMax(pi_gid[p] - gids, d)
    /\ PartUpdateDone => DOMAIN pi_gid = Particles

C19_Witness ==
  /\ PartUpdateDone /\ ppc = "returned"
  /\ nspecies = 2 /\ npart_spec = 1 /\ gids # 0
  /\ pi_sp[npart - 1] = nspecies - 1
  /\ \E p \in Particles : pi_gid[p] = gids + nmb - 1
  /\ \E p \in Particles : pr_pos[p][1] = BlockMin(pi_gid[p] - gids, 1)

\* C20: the decomposition of the flat indices 0 .. nmkji-1 is one-to-one and
\* onto the active cells; the restart reduction reads no cell outside them
\* and none twice, and has read every active cell once when it is done.
C20_DecodeIsBijection ==
  (call = "UserProblem" /\ restart) =>
    /\ (ppc = "restart" /\ kidx = 0) =>
         /\ \A x \in 0 .. (nmkji - 1) : DecodeIdx(x) \in ActiveCells
         /\ \A x, y \in 0 .. (nmkji - 1) : DecodeIdx(x) = DecodeIdx(y) => x = y
         /\ {DecodeIdx(x) : x \in 0 .. (nmkji - 1)} = ActiveCells
    /\ DOMAIN visits \subseteq ActiveCells
    /\ \A c \in DOMAIN visits : visits[c] = 1
    /\ ppc = "restart" => Cardinality(DOMAIN visits) = kidx
    /\ ppc = "returned" => DOMAIN visits = ActiveCells

C20_Witness ==
  /\ call = "UserProblem" /\ restart /\ pmhd /\ ppc = "returned"
  /\ nx2gt1 /\ nx3gt1 /\ cells.ng = 3
  /\ DOMAIN visits = ActiveCells

\* C21: a call of UserProblem with restart true writes no u0 and no b0 value
\* at any point of the call (it only reads b0); a u0 or b0 value is written
\* only in a call with restart false and an MHD object, by the pgen_mhd
\* kernel, which has then written every active cell when the call returns.
C21_RestartWritesNoFields ==
  call = "UserProblem" =>
    /\ restart =>
         /\ u0w = EmptyMap /\ b0w = EmptyMap
         /\ "u0" \notin accessed
         /\ ppc \notin {"init_mhd"}
    /\ (u0w # EmptyMap \/ b0w # EmptyMap) =>
         /\ ~restart /\ pmhd
         /\ ppc \in {"init_mhd", "returned"}
    /\ (~restart /\ pmhd /\ ppc = "returned") =>
         /\ DOMAIN u0w = ActiveCells
         /\ DOMAIN b0w = ExpectedB0Faces
    /\ (~restart /\ ~pmhd) => ppc \notin {"restart", "crashed"}

C21_Witness ==
  /\ call = "UserProblem" /\ restart /\ pmhd /\ ppc = "returned"
  /\ "dtOmega" \in dtterms /\ "b0" \in accessed
  /\ u0w = EmptyMap /\ b0w = EmptyMap

====
